---- MODULE Spec2Model ----
(***************************************************************************)
(* Gravity: the reconciliation engine (ConfigManager) and the process-     *)
(* manager layer (ProcessManagerRouter, SystemdProcessManager).            *)
(*                                                                         *)
(* Python dicts are TLA+ functions whose DOMAIN is the set of keys that    *)
(* are present; Python lists are sequences; None is the string "None".     *)
(***************************************************************************)
EXTENDS Integers, Sequences, FiniteSets, TLC

\* ------------------------------------------------------------------ bounds
MaxConfigs == 2      \* config file paths that exist
MaxHandlers == 1     \* largest job_handler_count a config file sets
MaxEdits == 1        \* edits of config files in one behaviour
MaxTargets == 1      \* longest argument list of add() and remove()

\* --------------------------------------------------------------- constants
None == "None"
DEFAULT_INSTANCE_NAME == "_default_"
DEFAULT_BIND_PORT == 8080
galaxy_server_config_section == "galaxy"

config_path(i) == "conf" \o ToString(i)
ConfigFiles == {config_path(i) : i \in 1..MaxConfigs}
PathSeq == [i \in 1..MaxConfigs |-> config_path(i)]

\* ------------------------------------------------------------ dict helpers
EmptyDict == <<>>
Has(d, k) == k \in DOMAIN d
Get(d, k, dflt) == IF k \in DOMAIN d THEN d[k] ELSE dflt
Put(d, k, v) == [x \in DOMAIN d \cup {k} |-> IF x = k THEN v ELSE d[x]]
Pop(d, k) == [x \in DOMAIN d \ {k} |-> d[x]]
Update(d, e) == [x \in DOMAIN d \cup DOMAIN e |-> IF x \in DOMAIN e THEN e[x] ELSE d[x]]
Range(s) == {s[i] : i \in DOMAIN s}

\* the keys of a dict keyed by config file, in iteration order
KeySeq(d) == SelectSeq(PathSeq, LAMBDA p : p \in DOMAIN d)

\* ------------------------------------------------- gravity.state: services
Service(config_type, service_type, service_name) ==
    [config_type |-> config_type, service_type |-> service_type, service_name |-> service_name]

GalaxyGunicornService(config_type) == Service(config_type, "gunicorn", "gunicorn")
GalaxyCeleryService(config_type) == Service(config_type, "celery", "celery")
GalaxyCeleryBeatService(config_type) == Service(config_type, "celery-beat", "celery-beat")
GalaxyStandaloneService(config_type, service_name, server_pool) ==
    Put(Service(config_type, "standalone", service_name), "server_pool", server_pool)

\* Service.__eq__: two specs are the same service
ServiceEq(a, b) ==
    /\ a["config_type"] = b["config_type"]
    /\ a["service_type"] = b["service_type"]
    /\ a["service_name"] = b["service_name"]

\* Service.full_match: every field is equal
full_match(a, b) ==
    /\ DOMAIN a = DOMAIN b
    /\ \A k \in DOMAIN a : a[k] = b[k]

\* Python's  service in services
ServiceIn(service, services) ==
    \E i \in 1..Len(services) : ServiceEq(services[i], service)

\* ConfigFile.defaults: the fallback defaults of a re-parse
defaults(stored_config) == stored_config["attribs"]

\* ---------------------------------------------------- the config files
\* A config file on disk: whether open() succeeds, the YAML document, whether
\* ../lib/galaxy exists next to it, and the handler ids of its job_conf.xml
\* (the empty sequence when there is no job_conf.xml or it lists none).
Unreadable == [readable |-> FALSE, doc |-> EmptyDict, lib_exists |-> FALSE, handlers |-> <<>>]
YamlFile(doc, lib_exists, handlers) ==
    [readable |-> TRUE, doc |-> doc, lib_exists |-> lib_exists, handlers |-> handlers]

\* the galaxy sections: instance_name may be absent, null, "x" or "y"; bind_port
\* and job_handler_count may be absent or set
Sections ==
    {[instance_name |-> "x"], [instance_name |-> "y"], [instance_name |-> None],
     [bind_port |-> DEFAULT_BIND_PORT + 1],
     [instance_name |-> "x", bind_port |-> DEFAULT_BIND_PORT + 1]}
    \cup {[instance_name |-> "x", job_handler_count |-> c] : c \in 1..MaxHandlers}

FileContents ==
    {Unreadable}
    \cup {YamlFile(EmptyDict, TRUE, <<>>), YamlFile([galaxy |-> EmptyDict], TRUE, <<>>)}
    \cup {YamlFile([galaxy |-> s], TRUE, <<>>) : s \in Sections}
    \cup {YamlFile([galaxy |-> [instance_name |-> "x"]], FALSE, <<>>)}
    \cup {YamlFile([galaxy |-> [instance_name |-> "x"]], TRUE, <<"handler0">>)}

InitialFile == YamlFile([galaxy |-> [instance_name |-> "x"]], TRUE, <<>>)

\* ------------------------------------------------ ConfigManager.get_config
handler_name(i) == "job-handler-" \o ToString(i)

StandaloneServices(config_type, handler_count) ==
    [i \in 1..handler_count |->
        GalaxyStandaloneService(config_type, handler_name(i - 1), "job-handlers")]

\* what a call gives: the exception it raised (or None), whether it returned
\* None, and the value it returned otherwise
Raise(exc) == [raised |-> exc, none |-> FALSE, value |-> EmptyDict]
Return(v) == [raised |-> None, none |-> FALSE, value |-> v]
ReturnNone == [raised |-> None, none |-> TRUE, value |-> EmptyDict]

\* an optional list argument: NoList is None, Some(l) is the list l
NoList == <<>>
Some(l) == <<l>>

get_config(conf, file, dflts) ==
    IF ~file.readable THEN Raise("OSError")
    ELSE
    LET server_section == galaxy_server_config_section
        config_dict == file.doc
        app_config0 == [galaxy_root |-> None,
                        log_dir |-> "log",
                        instance_name |-> DEFAULT_INSTANCE_NAME,
                        bind_address |-> "localhost",
                        bind_port |-> DEFAULT_BIND_PORT,
                        job_config_file |-> "config/job_conf.xml"]
        app_config1 == Update(app_config0, dflts)
    IN  IF ~Has(config_dict, server_section) \/ DOMAIN config_dict[server_section] = {}
        THEN ReturnNone
        ELSE
        LET app_config == Update(app_config1, config_dict[server_section])
            root == Get(app_config, "root", None)
            galaxy_root == IF root # None THEN root ELSE "root-of-" \o conf
            attribs == [log_dir |-> app_config["log_dir"],
                        bind_address |-> app_config["bind_address"],
                        bind_port |-> app_config["bind_port"],
                        galaxy_root |-> galaxy_root]
            handler_count == Get(app_config, "job_handler_count", 0)
            services == << GalaxyGunicornService(server_section),
                           GalaxyCeleryService(server_section),
                           GalaxyCeleryBeatService(server_section) >>
                        \o StandaloneServices(server_section, handler_count)
        IN  IF root = None /\ ~file.lib_exists THEN Raise("Exception")
            ELSE IF Len(file.handlers) > 0 THEN Raise("KeyError")
            ELSE Return([config_type |-> server_section,
                         instance_name |-> app_config["instance_name"],
                         attribs |-> attribs,
                         services |-> services])

\* ------------------------------------------------------------------- state
VARIABLES
    files,          \* config file path -> what is on disk at that path
    config_files,   \* GravityState.config_files: path -> registered record
    remove_configs, \* GravityState.remove_configs: path -> deregistered record
    changeset,      \* what the last determine_config_changes returned
    edits,          \* number of config file edits so far
    phase,          \* where the reconcile cycle stands since the last outside change
    unit_dir,       \* the systemd unit directory: unit file name -> contents
    last            \* the last call and its outcome

vars == <<files, config_files, remove_configs, changeset, edits, phase, unit_dir, last>>

\* -------------------------------------------------------- store accessors
\* ConfigManager.get_registered_configs(instances)
get_registered_configs(cfs, instances) ==
    IF instances = NoList THEN cfs
    ELSE [cf \in {c \in DOMAIN cfs : cfs[c]["instance_name"] \in Range(instances[1])} |-> cfs[cf]]

\* ConfigManager.get_remove_configs
get_remove_configs(rcs) == rcs

\* the instance names of a list of records, first occurrences only
RECURSIVE DistinctNames(_, _)
DistinctNames(configs, rval) ==
    IF configs = <<>> THEN rval
    ELSE LET name == Head(configs)["instance_name"]
         IN  DistinctNames(Tail(configs),
                           IF name \in Range(rval) THEN rval ELSE Append(rval, name))

Values(d) == [i \in 1..Len(KeySeq(d)) |-> d[KeySeq(d)[i]]]

\* ConfigManager.get_registered_instances(include_removed)
get_registered_instances(cfs, rcs, include_removed) ==
    DistinctNames(Values(cfs) \o (IF include_removed THEN Values(get_remove_configs(rcs)) ELSE <<>>),
                  <<>>)

\* ConfigManager.is_registered
is_registered(cfs, config_file) == config_file \in DOMAIN get_registered_configs(cfs, NoList)

\* ------------------------------- ConfigManager.determine_config_changes
\* the instance name a parsed config resolves to (lines 196-206)
ResolvedInstanceName(stored_config, ini_config) ==
    IF ini_config["instance_name"] # None
    THEN ini_config["instance_name"]
    ELSE stored_config["instance_name"]

\* a variant that compares with == instead of full_match
UpdateServices_ByEq(stored_services, ini_services) ==
    SelectSeq(ini_services, LAMBDA service : ~ServiceIn(service, stored_services))

\* lines 213-223: the fresh specs without a full match among the stored ones
UpdateServices(stored_services, ini_services) ==
    SelectSeq(ini_services,
              LAMBDA service :
                  ~\E i \in 1..Len(stored_services) : full_match(service, stored_services[i]))

\* lines 226-230: the stored specs that are not among the fresh ones
RemoveServices(stored_services, ini_services) ==
    SelectSeq(stored_services, LAMBDA service : ~ServiceIn(service, ini_services))

\* lines 196-232 for one config that parsed: the record with its staged keys
StageChanges(stored_config, ini_config) ==
    LET instance_name == ResolvedInstanceName(stored_config, ini_config)
        c1 == IF ini_config["instance_name"] # None
                 /\ ini_config["instance_name"] # stored_config["instance_name"]
              THEN Put(stored_config, "update_instance_name", instance_name)
              ELSE stored_config
        c2 == IF ini_config["attribs"] # stored_config["attribs"]
              THEN Put(c1, "update_attribs", ini_config["attribs"])
              ELSE c1
        upd == UpdateServices(stored_config["services"], ini_config["services"])
        c3 == IF upd # <<>> THEN Put(c2, "update_services", upd) ELSE c2
        rem == RemoveServices(stored_config["services"], ini_config["services"])
    IN  IF rem # <<>> THEN Put(c3, "remove_services", rem) ELSE c3

\* the names one parsed config adds to changed_instances (lines 203, 209, 223, 231)
ChangedInstances(stored_config, ini_config) ==
    LET instance_name == ResolvedInstanceName(stored_config, ini_config)
        staged == StageChanges(stored_config, ini_config)
    IN  IF \/ ini_config["instance_name"] # None
           \/ Has(staged, "update_attribs")
           \/ Has(staged, "update_services")
           \/ Has(staged, "remove_services")
        THEN {instance_name} ELSE {}

\* the outcome of the loop body for one registered config
\* parse: what get_config gave for that file
Reparse(fs, config_file, stored_config) ==
    get_config(config_file, fs[config_file], defaults(stored_config))

\* an exception other than OSError leaves the loop; a None result raises
\* TypeError at  ini_config["instance_name"]
LoopRaises(parse) ==
    IF parse.raised = "OSError" THEN None
    ELSE IF parse.raised # None THEN parse.raised
    ELSE IF parse.none THEN "TypeError"
    ELSE None

\* a variant that treats an unreadable config as one that lost its services
UnreadableConfig_AsEmptied(stored_config) ==
    IF stored_config["services"] = <<>> THEN stored_config
    ELSE Put(stored_config, "remove_services", stored_config["services"])

\* lines 193-194: what the loop keeps for a config whose file cannot be read
UnreadableConfig(stored_config) == stored_config

\* a variant that forgets the unreadable configs
PresentInstances_ParsedOnly(registered, parse) ==
    {ResolvedInstanceName(registered[cf], parse[cf].value) :
     cf \in {c \in DOMAIN registered : parse[c].raised # "OSError"}}

\* lines 194 and 211: the instance names that must not be removed
PresentInstances(registered, parse) ==
    {IF parse[cf].raised = "OSError" THEN registered[cf]["instance_name"]
     ELSE ResolvedInstanceName(registered[cf], parse[cf].value) :
     cf \in DOMAIN registered}

determine_config_changes(fs, cfs, rcs) ==
    LET registered == get_registered_configs(cfs, NoList)
        parse == [cf \in DOMAIN registered |-> Reparse(fs, cf, registered[cf])]
        unread == {cf \in DOMAIN registered : parse[cf].raised = "OSError"}
        failed == {cf \in DOMAIN registered : LoopRaises(parse[cf]) # None}
        new_configs == [cf \in DOMAIN registered |->
                           IF cf \in unread THEN UnreadableConfig(registered[cf])
                           ELSE StageChanges(registered[cf], parse[cf].value)]
        instances == PresentInstances(registered, parse)
        changed == UNION {IF cf \in unread THEN {}
                          ELSE ChangedInstances(registered[cf], parse[cf].value) :
                          cf \in DOMAIN registered}
        known == get_registered_instances(cfs, rcs, TRUE)
    IN  IF failed # {}
        THEN [status |-> "raised", warned |-> {}]
        ELSE [status |-> "returned",
              warned |-> unread,
              configs |-> new_configs,
              meta |-> [changed_instances |-> changed,
                        remove_instances |-> SelectSeq(known, LAMBDA n : n \notin instances),
                        remove_configs |-> get_remove_configs(rcs)]]

\* a variant in which the records determine_config_changes stages its keys on
\* are the store's own
persisted_after_determine_Aliased(cfs, result) ==
    IF result.status = "returned" THEN result.configs ELSE cfs

\* lines 187-188, 262-264, 273: the records the loop stages its keys on were
\* loaded for this call; what is persisted stays as it was
persisted_after_determine(cfs, result) == cfs

\* ---------------------------------------------------------- store writes
\* a store write gives [raised, config_files, remove_configs]
Stored(raised, cfs, rcs) == [raised |-> raised, config_files |-> cfs, remove_configs |-> rcs]

\* a variant that drops the record instead of keeping it for the backends
_deregister_config_file_Dropping(cfs, rcs, key) ==
    IF key \notin DOMAIN cfs THEN Stored("KeyError", cfs, rcs)
    ELSE Stored(None, Pop(cfs, key), rcs)

\* ConfigManager._register_config_file
_register_config_file(cfs, rcs, key, val) == Stored(None, Put(cfs, key, val), rcs)

\* ConfigManager._deregister_config_file
_deregister_config_file(cfs, rcs, key) ==
    IF key \notin DOMAIN cfs THEN Stored("KeyError", cfs, rcs)
    ELSE Stored(None, Pop(cfs, key), Put(rcs, key, cfs[key]))

\* ConfigManager._purge_config_file
_purge_config_file(cfs, rcs, key) ==
    IF key \notin DOMAIN rcs THEN Stored("KeyError", cfs, rcs)
    ELSE Stored(None, cfs, Pop(rcs, key))

\* -------------------------------- ConfigManager.register_config_changes
\* a variant that lets an old definition in next to its new one
RECURSIVE KeepServices_NoSupersede(_, _, _)
KeepServices_NoSupersede(stored_services, remove, services) ==
    IF stored_services = <<>> THEN services
    ELSE LET service == Head(stored_services)
         IN  KeepServices_NoSupersede(Tail(stored_services), remove,
                                      IF ~ServiceIn(service, remove)
                                      THEN Append(services, service)
                                      ELSE services)

\* a variant that does not look at remove_services
RECURSIVE KeepServices_IgnoreRemove(_, _, _)
KeepServices_IgnoreRemove(stored_services, remove, services) ==
    IF stored_services = <<>> THEN services
    ELSE LET service == Head(stored_services)
         IN  KeepServices_IgnoreRemove(Tail(stored_services), remove,
                                       IF ~ServiceIn(service, services)
                                       THEN Append(services, service)
                                       ELSE services)

\* lines 255-257: the stored specs that are kept, appended to the new ones
RECURSIVE KeepServices(_, _, _)
KeepServices(stored_services, remove, services) ==
    IF stored_services = <<>> THEN services
    ELSE LET service == Head(stored_services)
         IN  KeepServices(Tail(stored_services), remove,
                          IF ~ServiceIn(service, remove) /\ ~ServiceIn(service, services)
                          THEN Append(services, service)
                          ELSE services)

\* a variant that writes the record without what was staged
ApplyStaged_KeepsOldName(config) ==
    [k \in DOMAIN config \ {"update_attribs", "update_instance_name",
                             "update_services", "remove_services"} |-> config[k]]

\* lines 247-258: the record that is written for one config
ApplyStaged(config) ==
    LET c1 == IF Has(config, "update_attribs")
              THEN Pop(Put(config, "attribs", config["update_attribs"]), "update_attribs")
              ELSE config
        c2 == IF Has(c1, "update_instance_name")
              THEN Pop(Put(c1, "instance_name", c1["update_instance_name"]), "update_instance_name")
              ELSE c1
    IN  IF Has(c2, "update_services") \/ Has(c2, "remove_services")
        THEN LET remove == Get(c2, "remove_services", <<>>)
                 services == Get(c2, "update_services", <<>>)
             IN  Put(Pop(Pop(c2, "remove_services"), "update_services"),
                     "services", KeepServices(c2["services"], remove, services))
        ELSE c2

RECURSIVE PurgeAll(_, _, _)
PurgeAll(cfs, rcs, keys) ==
    IF keys = <<>> THEN Stored(None, cfs, rcs)
    ELSE LET r == _purge_config_file(cfs, rcs, Head(keys))
         IN  IF r.raised # None THEN r
             ELSE PurgeAll(r.config_files, r.remove_configs, Tail(keys))

RECURSIVE RegisterAll(_, _, _, _)
RegisterAll(cfs, rcs, configs, keys) ==
    IF keys = <<>> THEN Stored(None, cfs, rcs)
    ELSE LET r == _register_config_file(cfs, rcs, Head(keys), ApplyStaged(configs[Head(keys)]))
         IN  RegisterAll(r.config_files, r.remove_configs, configs, Tail(keys))

\* a variant that commits the configs that are still registered only
register_config_changes_Registered(cfs, rcs, configs, meta_changes) ==
    LET purged == PurgeAll(cfs, rcs, KeySeq(meta_changes["remove_configs"]))
    IN  IF purged.raised # None THEN purged
        ELSE RegisterAll(purged.config_files, purged.remove_configs, configs,
                         SelectSeq(KeySeq(configs), LAMBDA key : key \in DOMAIN cfs))

\* ConfigManager.register_config_changes
register_config_changes(cfs, rcs, configs, meta_changes) ==
    LET purged == PurgeAll(cfs, rcs, KeySeq(meta_changes["remove_configs"]))
    IN  IF purged.raised # None THEN purged
        ELSE RegisterAll(purged.config_files, purged.remove_configs, configs, KeySeq(configs))

\* --------------------------------------------------- ConfigManager.add
MaxHashes == 1
generated_name(config_type, hash) == config_type \o "-" \o ToString(hash)

\* add() gives the store, the exception raised and the files it warned about
RECURSIVE add(_, _, _, _, _, _)
add(fs, cfs, rcs, targets, hashes, warned) ==
    IF targets = <<>> THEN [store |-> Stored(None, cfs, rcs), warned |-> warned]
    ELSE
    LET config_file == Head(targets)
        parse == get_config(config_file, fs[config_file], EmptyDict)
        conf == parse.value
        conf_data == [config_type |-> conf["config_type"],
                      instance_name |-> IF conf["instance_name"] = None
                                        THEN generated_name(conf["config_type"], Head(hashes))
                                        ELSE conf["instance_name"],
                      attribs |-> conf["attribs"],
                      services |-> <<>>]
    IN  IF is_registered(cfs, config_file)
        THEN add(fs, cfs, rcs, Tail(targets), Tail(hashes), warned \cup {config_file})
        ELSE IF parse.raised # None
        THEN [store |-> Stored(parse.raised, cfs, rcs), warned |-> warned]
        ELSE IF parse.none
        THEN [store |-> Stored("Exception", cfs, rcs), warned |-> warned]
        ELSE LET r == _register_config_file(cfs, rcs, config_file, conf_data)
             IN  add(fs, r.config_files, r.remove_configs, Tail(targets), Tail(hashes), warned)

\* ------------------------------------------------ ConfigManager.remove
RECURSIVE DeregisterAll(_, _, _)
DeregisterAll(cfs, rcs, keys) ==
    IF keys = <<>> THEN Stored(None, cfs, rcs)
    ELSE LET r == _deregister_config_file(cfs, rcs, Head(keys))
         IN  IF r.raised # None THEN r
             ELSE DeregisterAll(r.config_files, r.remove_configs, Tail(keys))

remove(cfs, rcs, targets) ==
    LET configs_by_instance == get_registered_configs(cfs, Some(targets))
        supplied_config_files == IF DOMAIN configs_by_instance # {} THEN <<>> ELSE targets
        config_files0 == IF DOMAIN configs_by_instance # {}
                         THEN KeySeq(configs_by_instance) ELSE <<>>
        to_remove == config_files0
                     \o SelectSeq(supplied_config_files, LAMBDA cf : is_registered(cfs, cf))
    IN  [store |-> DeregisterAll(cfs, rcs, to_remove),
         warned |-> {cf \in Range(supplied_config_files) : ~is_registered(cfs, cf)}]

\* ------------------------------------------------ SystemdProcessManager
\* the service types that have an entry in SYSTEMD_SERVICE_TEMPLATES
SYSTEMD_SERVICE_TEMPLATES == {"gunicorn", "celery", "celery-beat"}

\* SystemdProcessManager.name and the other backend the router loads
systemd == "systemd"
supervisor == "supervisor"
ProcessManagers == {systemd, supervisor}

\* RegisteredConfig.process_manager
process_manager(config) == config["process_manager"]

\* SystemdProcessManager.__use_instance
use_instance == FALSE

\* SystemdProcessManager.__unit_name: <<a, b>> is the file  a-b.service  and
\* <<a, i, b>> the file  a-i-b.service
unit_name(instance_name, service) ==
    IF use_instance
    THEN <<service["config_type"], instance_name, service["service_name"]>>
    ELSE <<service["config_type"], service["service_name"]>>

\* the template filled in for one service: the fields that differ between units
render(config_file, config, service) ==
    [program_name |-> service["service_name"],
     galaxy_umask |-> Get(service, "umask", "022"),
     galaxy_conf |-> config_file]

\* the running state of a backend call: the unit directory, the file and
\* systemctl events so far, and the exception that ended it (or None)
Run(dir, trace, raised) == [dir |-> dir, trace |-> trace, raised |-> raised]
Event(ev, unit) == [ev |-> ev, unit |-> unit]

\* BaseProcessManager._service_program_name: the four parts of the name
_service_program_name(instance_name, service) ==
    <<instance_name, service["config_type"], service["service_type"], service["service_name"]>>

\* a file of the unit directory: its contents, and the instance it was last
\* written for (from the name argument of _update_file; not part of the file)
UnitFile(contents, name) == [contents |-> contents, written_for |-> name[1]]

\* a write of a unit file, with what was written
Written(path, file) ==
    [ev |-> "write", unit |-> path, contents |-> file.contents, written_for |-> file.written_for]

\* a variant that finds every existing file in need of an update
_file_needs_update_Always(dir, path, contents) == TRUE

\* BaseProcessManager._file_needs_update
_file_needs_update(dir, path, contents) ==
    ~(path \in DOMAIN dir /\ dir[path].contents = contents)

\* BaseProcessManager._update_file
_update_file(run, path, contents, name) ==
    LET exists == path \in DOMAIN run.dir
    IN  IF (exists /\ _file_needs_update(run.dir, path, contents)) \/ ~exists
        THEN Run(Put(run.dir, path, UnitFile(contents, name)),
                 Append(run.trace, Written(path, UnitFile(contents, name))), None)
        ELSE run

\* SystemdProcessManager.__update_service
update_service(run, config_file, config, service, instance_name) ==
    IF service["service_type"] \notin SYSTEMD_SERVICE_TEMPLATES
    THEN Run(run.dir, run.trace, "Exception")
    ELSE _update_file(run, unit_name(instance_name, service),
                      render(config_file, config, service),
                      _service_program_name(instance_name, service))

\* a systemctl call with the exit status of the command
Exited(command, unit, status) == [ev |-> command, unit |-> unit, exit |-> status]

\* a variant that goes on after a command that exited non-zero
systemctl_Swallowing(run, command, unit) ==
    {Run(run.dir, Append(run.trace, Exited(command, unit, 0)), None),
     Run(run.dir, Append(run.trace, Exited(command, unit, 1)), None)}

\* SystemdProcessManager.__systemctl: the runs it can leave, one where the
\* command succeeded and one where it exited non-zero
systemctl(run, command, unit) ==
    {Run(run.dir, Append(run.trace, Exited(command, unit, 0)), None),
     Run(run.dir, Append(run.trace, Exited(command, unit, 1)), "CalledProcessError")}

\* lines 162-163: the units of the services, written in order
RECURSIVE UpdateServicesOf(_, _, _, _)
UpdateServicesOf(run, config_file, config, services) ==
    IF services = <<>> \/ run.raised # None THEN run
    ELSE UpdateServicesOf(
             update_service(run, config_file, config, Head(services), config["instance_name"]),
             config_file, config, Tail(services))

\* lines 169-174: stop and unlink the files in any order
RECURSIVE RemoveFiles(_, _)
RemoveFiles(run, doomed) ==
    IF doomed = {} THEN {run}
    ELSE UNION { UNION { IF stopped.raised # None THEN {stopped}
                         ELSE RemoveFiles(Run(Pop(stopped.dir, file),
                                              Append(stopped.trace, Event("unlink", file)),
                                              None),
                                          doomed \ {file}) :
                         stopped \in systemctl(run, "stop", file) } :
                 file \in doomed }

\* SystemdProcessManager._process_config: the runs it can leave
\* makedirs either finds or makes the directory, or raises OSError
process_config(run, config_file, config) ==
    LET written == UpdateServicesOf(run, config_file, config, config["services"])
        intended_configs == {unit_name(config["instance_name"], config["services"][i]) :
                                i \in 1..Len(config["services"])}
        present_configs == {f \in DOMAIN written.dir : f[1] = "galaxy"}
    IN  {Run(run.dir, run.trace, "OSError")}
        \cup (IF written.raised # None THEN {written}
              ELSE RemoveFiles(written, present_configs \ intended_configs))

\* the orders in which a dict may be iterated
RECURSIVE Orders(_)
Orders(S) == IF S = {} THEN {<<>>}
             ELSE UNION {{<<x>> \o o : o \in Orders(S \ {x})} : x \in S}

\* lines 206-222: the loop over the configs, then daemon-reload
RECURSIVE UpdateLoop(_, _, _)
UpdateLoop(run, configs, keys) ==
    IF run.raised # None THEN {run}
    ELSE IF keys = <<>> THEN systemctl(run, "daemon-reload", <<>>)
    ELSE LET config == configs[Head(keys)]
         IN  IF process_manager(config) = systemd
             THEN UNION {UpdateLoop(r, configs, Tail(keys)) :
                            r \in process_config(run, Head(keys), config)}
             ELSE UpdateLoop(run, configs, Tail(keys))

\* SystemdProcessManager.update: the runs it can leave
systemd_update(dir, cfs, instance_names, force) ==
    LET configs == get_registered_configs(cfs, instance_names)
    IN  UNION {UpdateLoop(Run(dir, <<>>, None), configs, keys) : keys \in Orders(DOMAIN configs)}

\* ------------------------------------------------- ProcessManagerRouter
\* the update of the supervisor backend: it leaves the unit directory alone and
\* either returns or raises
supervisor_update(dir, cfs, instance_names, force) ==
    {Run(dir, <<>>, None), Run(dir, <<>>, "Exception")}

backend_update(pm, dir, cfs, instance_names, force) ==
    IF pm = systemd THEN systemd_update(dir, cfs, instance_names, force)
    ELSE supervisor_update(dir, cfs, instance_names, force)

\* a variant that groups the named instances by backend, as the other
\* operations do
BackendsToUpdate_Grouped(cfs, instance_names) ==
    {process_manager(cfs[cf]) : cf \in DOMAIN get_registered_configs(cfs, instance_names)}

\* line 262: the backends update is offered to
BackendsToUpdate(cfs, instance_names) == ProcessManagers

BackendCall(pm, instance_names, force) ==
    [pm |-> pm, instance_names |-> instance_names, force |-> force]

\* lines 262-263: the runs the loop over the backends can leave, with the calls made
RECURSIVE RouterLoop(_, _, _, _, _, _)
RouterLoop(run, calls, cfs, pms, instance_names, force) ==
    IF run.raised # None \/ pms = <<>> THEN {[run |-> run, calls |-> calls]}
    ELSE UNION { RouterLoop(Run(r.dir, run.trace \o r.trace, r.raised),
                            Append(calls, BackendCall(Head(pms), instance_names, force)),
                            cfs, Tail(pms), instance_names, force) :
                 r \in backend_update(Head(pms), run.dir, cfs, instance_names, force) }

\* ProcessManagerRouter.update
router_update(dir, cfs, instance_names, force) ==
    UNION { RouterLoop(Run(dir, <<>>, None), <<>>, cfs, pms, instance_names, force) :
            pms \in Orders(BackendsToUpdate(cfs, instance_names)) }

\* ------------------------------------- SystemdProcessManager: lifecycle
\* SystemdProcessManager.__systemctl called with a command and a list of unit
\* names: the runs it can leave
systemctl_units(run, command, unit_names) ==
    {Run(run.dir, Append(run.trace, [ev |-> command, units |-> unit_names, exit |-> 0]), None),
     Run(run.dir, Append(run.trace, [ev |-> command, units |-> unit_names, exit |-> 1]),
         "CalledProcessError")}

\* lines 145, 183, 201: the unit names of the services of one config
unit_names_of(config) ==
    [i \in 1..Len(config["services"]) |-> unit_name(config["instance_name"], config["services"][i])]

\* lines 144-146, 182-184, 200-202: one systemctl call for each config
RECURSIVE CommandLoop(_, _, _, _)
CommandLoop(run, command, configs, keys) ==
    IF run.raised # None \/ keys = <<>> THEN {run}
    ELSE UNION {CommandLoop(r, command, configs, Tail(keys)) :
                   r \in systemctl_units(run, command, unit_names_of(configs[Head(keys)]))}

CommandRuns(dir, command, configs) ==
    UNION {CommandLoop(Run(dir, <<>>, None), command, configs, keys) : keys \in Orders(DOMAIN configs)}

\* SystemdProcessManager.start
systemd_start(dir, cfs, instance_names) ==
    CommandRuns(dir, "start", get_registered_configs(cfs, instance_names))

\* SystemdProcessManager.stop
systemd_stop(dir, cfs, instance_names) ==
    CommandRuns(dir, "stop", get_registered_configs(cfs, instance_names))

\* SystemdProcessManager.status
systemd_status(dir, cfs) ==
    CommandRuns(dir, "status", get_registered_configs(cfs, NoList))

\* SystemdProcessManager.restart, reload, graceful, terminate and shutdown:
\* a debug message only
systemd_debug_only(dir) == {Run(dir, <<>>, None)}

\* the methods of a backend other than update
systemd_method(method, dir, cfs, instance_names) ==
    CASE method = "start" -> systemd_start(dir, cfs, instance_names)
      [] method = "stop" -> systemd_stop(dir, cfs, instance_names)
      [] method = "status" -> systemd_status(dir, cfs)
      [] OTHER -> systemd_debug_only(dir)

\* a method of the supervisor backend: it leaves the unit directory alone and
\* either returns or raises
supervisor_method(method, dir, cfs, instance_names) ==
    {Run(dir, <<>>, None), Run(dir, <<>>, "Exception")}

backend_method(pm, method, dir, cfs, instance_names) ==
    IF pm = systemd THEN systemd_method(method, dir, cfs, instance_names)
    ELSE supervisor_method(method, dir, cfs, instance_names)

\* ----------------------------------- ProcessManagerRouter: dispatch
\* ConfigManager.get_registered_instance_names: the names of the registered
\* instances
get_registered_instance_names(cfs) == get_registered_instances(cfs, EmptyDict, FALSE)

\* gravity.io.exception: the fatal usage error
exception == "ClickException"

\* BaseProcessManager.get_instance_names
get_instance_names(cfs, instance_names) ==
    LET registered_instance_names == get_registered_instance_names(cfs)
        requested == IF instance_names = NoList THEN <<>> ELSE instance_names[1]
        known(n) == n \in Range(registered_instance_names)
    IN  IF requested # <<>>
        THEN [raised |-> None,
              instance_names |-> SelectSeq(requested, LAMBDA n : known(n)),
              unknown |-> SelectSeq(requested, LAMBDA n : ~known(n)),
              registered |-> registered_instance_names]
        ELSE IF registered_instance_names # <<>>
        THEN [raised |-> None,
              instance_names |-> registered_instance_names,
              unknown |-> <<>>,
              registered |-> registered_instance_names]
        ELSE [raised |-> exception,
              instance_names |-> <<>>,
              unknown |-> <<>>,
              registered |-> registered_instance_names]

\* ConfigManager.get_instance_config: the first config of that instance
get_instance_config(cfs, instance_name) ==
    cfs[Head(SelectSeq(KeySeq(cfs), LAMBDA cf : cfs[cf]["instance_name"] = instance_name))]

\* a variant that offers every name to every loaded backend
group_instance_names_to_all(cfs, instance_names) ==
    IF instance_names = <<>> THEN <<>>
    ELSE <<[pm |-> systemd, instance_names |-> instance_names],
           [pm |-> supervisor, instance_names |-> instance_names]>>

\* lines 200-205: the groups in the order their backend is first met
RECURSIVE GroupLoop(_, _, _)
GroupLoop(cfs, instance_names, instance_names_by_pm) ==
    IF instance_names = <<>> THEN instance_names_by_pm
    ELSE LET instance_name == Head(instance_names)
             pm == process_manager(get_instance_config(cfs, instance_name))
             at == {i \in 1..Len(instance_names_by_pm) : instance_names_by_pm[i].pm = pm}
         IN  GroupLoop(cfs, Tail(instance_names),
                 IF at = {}
                 THEN Append(instance_names_by_pm,
                             [pm |-> pm, instance_names |-> <<instance_name>>])
                 ELSE [i \in 1..Len(instance_names_by_pm) |->
                          IF i \in at
                          THEN [pm |-> pm,
                                instance_names |->
                                    Append(instance_names_by_pm[i].instance_names, instance_name)]
                          ELSE instance_names_by_pm[i]])

\* ProcessManagerRouter.__group_instance_names_by_pm, given the resolved names
group_instance_names_by_pm(cfs, instance_names) == GroupLoop(cfs, instance_names, <<>>)

\* line 199: of what get_instance_names returns only the resolved names are
\* used; no name is passed to warn, error or exception
reported_names(resolved) == {}

MethodCall(pm, method, instance_names) ==
    [pm |-> pm, method |-> method, instance_names |-> instance_names]

\* lines 211-218: the runs the loop over the groups can leave, with the calls made
RECURSIVE RouteLoop(_, _, _, _, _, _)
RouteLoop(run, calls, method, with_names, cfs, groups) ==
    IF run.raised # None \/ groups = <<>> THEN {[run |-> run, calls |-> calls]}
    ELSE LET group == Head(groups)
             arg == IF with_names THEN Some(group.instance_names) ELSE NoList
         IN  UNION { RouteLoop(Run(r.dir, run.trace \o r.trace, r.raised),
                               Append(calls, MethodCall(group.pm, method, arg)),
                               method, with_names, cfs, Tail(groups)) :
                     r \in backend_method(group.pm, method, run.dir, cfs, arg) }

\* ProcessManagerRouter.__route_method; with_names tells whether the caller
\* passed an instance_names keyword
route_method(method, with_names, dir, cfs, instance_names) ==
    LET resolved == get_instance_names(cfs, instance_names)
    IN  IF resolved.raised # None
        THEN {[run |-> Run(dir, <<>>, resolved.raised), calls |-> <<>>,
               reported |-> reported_names(resolved)]}
        ELSE {[run |-> r.run, calls |-> r.calls, reported |-> reported_names(resolved)] :
              r \in RouteLoop(Run(dir, <<>>, None), <<>>, method, with_names, cfs,
                              group_instance_names_by_pm(cfs, resolved.instance_names))}

\* the router's methods that pass instance_names on, and those that do not
NamedMethods == {"start", "stop", "restart", "reload", "graceful"}
UnnamedMethods == {"status", "shutdown"}

\* ------------------------------------------------------------- arguments
\* the lists of at most n elements of S
RECURSIVE ListsUpTo(_, _)
ListsUpTo(S, n) ==
    IF n = 0 THEN {<<>>}
    ELSE LET shorter == ListsUpTo(S, n - 1)
         IN  shorter \cup {Append(l, x) : l \in shorter, x \in S}

InstanceNames == {DEFAULT_INSTANCE_NAME, "x"} \cup {generated_name("galaxy", h) : h \in 1..MaxHashes}

\* the instance_names argument of a backend call: None or a list
InstanceNameArgs == {NoList} \cup {Some(l) : l \in ListsUpTo({DEFAULT_INSTANCE_NAME, "x"}, MaxTargets)}

NoChangeset == [status |-> "none", warned |-> {}]
Call(op, raised, warned) == [op |-> op, raised |-> raised, warned |-> warned]
PmCall(op, instance_names, force, run, calls) ==
    [op |-> op, raised |-> run.raised, warned |-> {}, instance_names |-> instance_names,
     force |-> force, trace |-> run.trace, calls |-> calls]

\* the records the store is given for a config file
StoredAttribs(config_file) ==
    [log_dir |-> "log", bind_address |-> "localhost", bind_port |-> DEFAULT_BIND_PORT,
     galaxy_root |-> "root-of-" \o config_file]
Gunicorn == GalaxyGunicornService("galaxy")
Celery == GalaxyCeleryService("galaxy")
PmServiceLists == {<<Gunicorn>>, <<Gunicorn, Celery>>}
PmRecords(config_file) ==
    {[config_type |-> "galaxy", instance_name |-> n, attribs |-> StoredAttribs(config_file),
      services |-> l, process_manager |-> pm] :
        n \in {DEFAULT_INSTANCE_NAME, "x"}, l \in PmServiceLists, pm \in ProcessManagers}

\* ----------------------------------------------------------------- actions
Init ==
    /\ files = [p \in ConfigFiles |-> InitialFile]
    /\ config_files = EmptyDict
    /\ remove_configs = EmptyDict
    /\ changeset = NoChangeset
    /\ edits = 0
    /\ phase = "dirty"
    /\ unit_dir = EmptyDict
    /\ last = Call("init", None, {})

\* somebody edits, breaks or removes a config file
EditFile ==
    /\ changeset.status # "returned"
    /\ edits < MaxEdits
    /\ \E p \in ConfigFiles : \E c \in FileContents \ {files[p]} :
          files' = [files EXCEPT ![p] = c]
    /\ edits' = edits + 1
    /\ phase' = "dirty"
    /\ last' = Call("edit", None, {})
    /\ UNCHANGED <<config_files, remove_configs, changeset, unit_dir>>

\* galaxyctl register
Add ==
    /\ changeset.status # "returned"
    /\ \E targets \in ListsUpTo(ConfigFiles, MaxTargets) \ {<<>>},
          hashes \in [1..MaxTargets -> 1..MaxHashes] :
        LET r == add(files, config_files, remove_configs, targets, hashes, {})
        IN  /\ config_files' = r.store.config_files
            /\ remove_configs' = r.store.remove_configs
            /\ last' = Call("add", r.store.raised, r.warned)
    /\ phase' = "dirty"
    /\ UNCHANGED <<files, changeset, edits, unit_dir>>

\* galaxyctl deregister
Remove ==
    /\ changeset.status # "returned"
    /\ \E targets \in ListsUpTo(ConfigFiles \cup InstanceNames, MaxTargets) \ {<<>>} :
        LET r == remove(config_files, remove_configs, targets)
        IN  /\ config_files' = r.store.config_files
            /\ remove_configs' = r.store.remove_configs
            /\ last' = Call("remove", r.store.raised, r.warned)
    /\ phase' = "dirty"
    /\ UNCHANGED <<files, changeset, edits, unit_dir>>

Determine ==
    LET r == determine_config_changes(files, config_files, remove_configs)
    IN  /\ changeset' = r
        /\ config_files' = persisted_after_determine(config_files, r)
        /\ phase' = IF r.status # "returned" THEN "dirty"
                    ELSE IF phase \in {"committed", "redetermined"} THEN "redetermined"
                    ELSE "determined"
        /\ last' = Call("determine",
                        IF r.status = "returned" THEN None ELSE "Exception", r.warned)
        /\ UNCHANGED <<files, remove_configs, edits, unit_dir>>

Register ==
    /\ changeset.status = "returned"
    /\ LET r == register_config_changes(config_files, remove_configs,
                                        changeset.configs, changeset.meta)
       IN  /\ config_files' = r.config_files
           /\ remove_configs' = r.remove_configs
           /\ phase' = IF r.raised = None /\ phase \in {"determined", "redetermined"}
                       THEN "committed" ELSE "dirty"
           /\ last' = [op |-> "register", raised |-> r.raised, warned |-> changeset.warned,
                        before |-> config_files, configs |-> changeset.configs,
                        pending |-> remove_configs]
    /\ changeset' = NoChangeset
    /\ UNCHANGED <<files, edits, unit_dir>>

Next == EditFile \/ Add \/ Remove \/ Determine \/ Register

\* the reconcile cycle: register, edit, deregister, determine, commit
Spec == Init /\ [][Next]_vars

\* ---- two invocations that are not serialized
\* galaxyctl deregister, run by another invocation between the determine and
\* the commit of this one
RemoveBetween ==
    /\ changeset.status = "returned"
    /\ \E targets \in ListsUpTo(ConfigFiles \cup InstanceNames, MaxTargets) \ {<<>>} :
        LET r == remove(config_files, remove_configs, targets)
        IN  /\ config_files' = r.store.config_files
            /\ remove_configs' = r.store.remove_configs
            /\ last' = Call("remove", r.store.raised, r.warned)
    /\ phase' = "raced"
    /\ UNCHANGED <<files, changeset, edits, unit_dir>>

RaceNext == Next \/ RemoveBetween

SpecRace == Init /\ [][RaceNext]_vars

\* ---- one registered config whose stored services are any list the store can
\* hold: specs of a parse, specs persisted with other field values, and specs
\* of services the config no longer has
MaxStored == 3
CeleryBeat == GalaxyCeleryBeatService("galaxy")
Handler0 == GalaxyStandaloneService("galaxy", handler_name(0), "job-handlers")
StoredSpecs ==
    {Gunicorn, Put(Gunicorn, "umask", "027"), Celery, CeleryBeat, Handler0,
     GalaxyStandaloneService("galaxy", "legacy-handler", "job-handlers")}
DistinctServices(l) ==
    \A i, j \in 1..Len(l) : i # j => ~ServiceEq(l[i], l[j])
StoredServiceLists == {l \in ListsUpTo(StoredSpecs, MaxStored) : DistinctServices(l)}

InitDiff ==
    /\ files = [p \in ConfigFiles |-> InitialFile]
    /\ \E l \in StoredServiceLists :
          config_files = [cf \in {config_path(1)} |->
                             [config_type |-> "galaxy", instance_name |-> "x",
                              attribs |-> StoredAttribs(cf), services |-> l]]
    /\ remove_configs = EmptyDict
    /\ changeset = NoChangeset
    /\ edits = 0
    /\ phase = "dirty"
    /\ unit_dir = EmptyDict
    /\ last = Call("init", None, {})

NextDiff == EditFile \/ Determine \/ Register

SpecDiff == InitDiff /\ [][NextDiff]_vars

\* ---- the store operations, each called with any key
StoreValues(key) ==
    {val \in PmRecords(key) : val["instance_name"] = "x" /\ val["services"] = <<Gunicorn>>}

StoreCall(op, key, raised) == [op |-> op, key |-> key, raised |-> raised, warned |-> {}]

StoreRegister ==
    /\ \E key \in ConfigFiles : \E val \in StoreValues(key) :
        LET r == _register_config_file(config_files, remove_configs, key, val)
        IN  /\ config_files' = r.config_files
            /\ remove_configs' = r.remove_configs
            /\ last' = [op |-> "_register_config_file", key |-> key, val |-> val,
                         raised |-> r.raised, warned |-> {}]
    /\ UNCHANGED <<files, changeset, edits, phase, unit_dir>>

StoreDeregister ==
    /\ \E key \in ConfigFiles :
        LET r == _deregister_config_file(config_files, remove_configs, key)
        IN  /\ config_files' = r.config_files
            /\ remove_configs' = r.remove_configs
            /\ last' = StoreCall("_deregister_config_file", key, r.raised)
    /\ UNCHANGED <<files, changeset, edits, phase, unit_dir>>

StorePurge ==
    /\ \E key \in ConfigFiles :
        LET r == _purge_config_file(config_files, remove_configs, key)
        IN  /\ config_files' = r.config_files
            /\ remove_configs' = r.remove_configs
            /\ last' = StoreCall("_purge_config_file", key, r.raised)
    /\ UNCHANGED <<files, changeset, edits, phase, unit_dir>>

StoreNext == StoreRegister \/ StoreDeregister \/ StorePurge

SpecStore == Init /\ [][StoreNext]_vars

\* ---- deregistration with a list of targets
MaxRemoveTargets == 2    \* longest argument list of remove() in SpecRemove

\* galaxyctl deregister with paths, instance names, or both
RemoveTargets ==
    /\ \E targets \in ListsUpTo(ConfigFiles \cup InstanceNames, MaxRemoveTargets) \ {<<>>} :
        LET r == remove(config_files, remove_configs, targets)
        IN  /\ config_files' = r.store.config_files
            /\ remove_configs' = r.store.remove_configs
            /\ last' = [op |-> "remove_targets", raised |-> r.store.raised, warned |-> r.warned,
                         targets |-> targets, before |-> config_files]
    /\ UNCHANGED <<files, changeset, edits, phase, unit_dir>>

RemoveNext == EditFile \/ Add \/ RemoveTargets

SpecRemove == Init /\ [][RemoveNext]_vars

\* ---- the backends, over a store written through the store's own operations
PutConfig ==
    /\ \E key \in ConfigFiles : \E val \in PmRecords(key) :
        LET r == _register_config_file(config_files, remove_configs, key, val)
        IN  /\ config_files' = r.config_files
            /\ remove_configs' = r.remove_configs
    /\ last' = Call("put", None, {})
    /\ UNCHANGED <<files, changeset, edits, phase, unit_dir>>

\* a config is deregistered and, as the next commit does, purged
Deregister ==
    /\ \E key \in DOMAIN config_files :
        LET d == _deregister_config_file(config_files, remove_configs, key)
            r == _purge_config_file(d.config_files, d.remove_configs, key)
        IN  /\ config_files' = r.config_files
            /\ remove_configs' = r.remove_configs
    /\ last' = Call("deregister", None, {})
    /\ UNCHANGED <<files, changeset, edits, phase, unit_dir>>

SystemdUpdate ==
    /\ \E instance_names \in InstanceNameArgs, force \in BOOLEAN :
        \E run \in systemd_update(unit_dir, config_files, instance_names, force) :
            /\ unit_dir' = run.dir
            /\ last' = PmCall("systemd.update", instance_names, force, run, <<>>)
    /\ UNCHANGED <<files, config_files, remove_configs, changeset, edits, phase>>

RouterUpdate ==
    /\ \E instance_names \in InstanceNameArgs, force \in BOOLEAN :
        \E r \in router_update(unit_dir, config_files, instance_names, force) :
            /\ unit_dir' = r.run.dir
            /\ last' = PmCall("router.update", instance_names, force, r.run, r.calls)
    /\ UNCHANGED <<files, config_files, remove_configs, changeset, edits, phase>>

\* the systemd backend driven directly
PmNext == PutConfig \/ Deregister \/ SystemdUpdate

SpecPM == Init /\ [][PmNext]_vars

\* the backends driven through the router
RouterNext == PutConfig \/ Deregister \/ RouterUpdate

SpecRouter == Init /\ [][RouterNext]_vars

\* ---- the systemd backend over records whose services are those of a parse
\* the config files registered in SpecParsed: without and with dynamic handlers
ParsedFiles ==
    {YamlFile([galaxy |-> [instance_name |-> "x"]], TRUE, <<>>)}
    \cup {YamlFile([galaxy |-> [instance_name |-> "x", job_handler_count |-> c]], TRUE, <<>>) :
             c \in 1..MaxHandlers}

\* the record of a config once its first changeset is committed: what add()
\* stored, with the services of the parse
ParsedRecords(config_file) ==
    {[config_type |-> parse.value["config_type"],
      instance_name |-> parse.value["instance_name"],
      attribs |-> parse.value["attribs"],
      services |-> parse.value["services"],
      process_manager |-> pm] :
        parse \in {get_config(config_file, file, EmptyDict) : file \in ParsedFiles},
        pm \in ProcessManagers}

PutParsed ==
    /\ \E key \in ConfigFiles : \E val \in ParsedRecords(key) :
        LET r == _register_config_file(config_files, remove_configs, key, val)
        IN  /\ config_files' = r.config_files
            /\ remove_configs' = r.remove_configs
    /\ last' = Call("put", None, {})
    /\ UNCHANGED <<files, changeset, edits, phase, unit_dir>>

ParsedNext == PutParsed \/ Deregister \/ SystemdUpdate

SpecParsed == Init /\ [][ParsedNext]_vars

\* ---- BaseProcessManager._service_environment
\* Service.get_environment: a copy of the environment map of the service
get_environment(service) == Get(service, "environment", EmptyDict)

\* Service.environment_from
environment_from_of(service) == Get(service, "environment_from", None)

\* a variant that lets the values of the service stand
_service_environment_ServiceFirst(service, attribs) ==
    LET environment_from == IF environment_from_of(service) = None
                            THEN service["service_type"] ELSE environment_from_of(service)
    IN  Update(Get(Get(attribs, environment_from, EmptyDict), "environment", EmptyDict),
               get_environment(service))

\* BaseProcessManager._service_environment
_service_environment(service, attribs) ==
    LET environment == get_environment(service)
        environment_from == IF environment_from_of(service) = None
                            THEN service["service_type"] ELSE environment_from_of(service)
    IN  Update(environment,
               Get(Get(attribs, environment_from, EmptyDict), "environment", EmptyDict))

\* v.format(**format_vars) of an environment value, then shlex.quote, which
\* leaves a value of letters, digits and slashes as it is
format_value(v, format_vars) ==
    IF v = "{state_dir}" THEN format_vars["state_dir"] ELSE v

\* line 133: the Environment= lines of a unit, as name -> value
rendered_environment(service, attribs, format_vars) ==
    LET environment == _service_environment(service, attribs)
    IN  [k \in DOMAIN environment |-> format_value(environment[k], format_vars)]

\* the environment maps: any of two variables may be absent or set
EnvValues == {"1", "{state_dir}"}
EnvMaps ==
    {EmptyDict}
    \cup {[A |-> a] : a \in EnvValues} \cup {[B |-> b] : b \in EnvValues}
    \cup {[A |-> a, B |-> b] : a \in EnvValues, b \in EnvValues}

ServiceEnvironment ==
    /\ \E service_env \in EnvMaps, attribs_env \in EnvMaps, other_env \in EnvMaps,
          from \in {None, "celery"} :
        LET service == [config_type |-> "galaxy", service_type |-> "gunicorn",
                        service_name |-> "gunicorn", environment |-> service_env,
                        environment_from |-> from]
            attribs == [gunicorn |-> [environment |-> IF from = None THEN attribs_env ELSE other_env],
                        celery |-> [environment |-> IF from = None THEN other_env ELSE attribs_env]]
        IN  last' = [op |-> "_service_environment", raised |-> None, warned |-> {},
                     service_env |-> service_env, attribs_env |-> attribs_env,
                     environment_from |-> from,
                     rendered |-> rendered_environment(service, attribs, [state_dir |-> "/state"])]
    /\ UNCHANGED <<files, config_files, remove_configs, changeset, edits, phase, unit_dir>>

SpecEnv == Init /\ [][ServiceEnvironment]_vars

\* ---- a cycle that is terminated, and the cycle that follows it
\* the store writes of register_config_changes, in the order it makes them
register_steps(configs, meta_changes) ==
    [i \in 1..Len(KeySeq(meta_changes["remove_configs"])) |->
        [op |-> "purge", key |-> KeySeq(meta_changes["remove_configs"])[i]]]
    \o [i \in 1..Len(KeySeq(configs)) |-> [op |-> "register", key |-> KeySeq(configs)[i]]]

\* the store after the first n store writes of register_config_changes
RECURSIVE register_prefix(_, _, _, _, _)
register_prefix(cfs, rcs, configs, steps, n) ==
    IF n = 0 THEN Stored(None, cfs, rcs)
    ELSE LET before == register_prefix(cfs, rcs, configs, steps, n - 1)
             step == steps[n]
         IN  IF before.raised # None THEN before
             ELSE IF step.op = "purge"
             THEN _purge_config_file(before.config_files, before.remove_configs, step.key)
             ELSE _register_config_file(before.config_files, before.remove_configs,
                                        step.key, ApplyStaged(configs[step.key]))

\* the unit directory after the first n file and control events of an update
RECURSIVE DirAfter(_, _, _)
DirAfter(dir, trace, n) ==
    IF n = 0 THEN dir
    ELSE LET before == DirAfter(dir, trace, n - 1)
             event == trace[n]
         IN  IF event.ev = "write"
             THEN Put(before, event.unit,
                      [contents |-> event.contents, written_for |-> event.written_for])
             ELSE IF event.ev = "unlink" THEN Pop(before, event.unit)
             ELSE before

\* what the files of a unit directory hold
Contents(dir) == [path \in DOMAIN dir |-> dir[path].contents]

\* the outcome of a cycle or of a part of it
Outcome(raised, cfs, rcs, dir) ==
    [raised |-> raised, config_files |-> cfs, remove_configs |-> rcs, dir |-> dir]

\* a commit of a changeset, then the update of the systemd backend
commit_and_update(cfs, rcs, dir, configs, meta_changes) ==
    LET r == register_config_changes(cfs, rcs, configs, meta_changes)
    IN  IF r.raised # None THEN {Outcome(r.raised, r.config_files, r.remove_configs, dir)}
        ELSE {Outcome(run.raised, r.config_files, r.remove_configs, run.dir) :
                 run \in systemd_update(dir, r.config_files, NoList, FALSE)}

\* the same, terminated during the commit or during the update
terminated_commit_and_update(cfs, rcs, dir, configs, meta_changes) ==
    LET steps == register_steps(configs, meta_changes)
        r == register_config_changes(cfs, rcs, configs, meta_changes)
    IN  {LET p == register_prefix(cfs, rcs, configs, steps, n)
         IN  Outcome("terminated", p.config_files, p.remove_configs, dir) :
            n \in 0..(Len(steps) - 1)}
        \cup UNION {{Outcome("terminated", r.config_files, r.remove_configs,
                             DirAfter(dir, run.trace, n)) :
                        n \in 0..(Len(run.trace) - 1)} :
                    run \in systemd_update(dir, r.config_files, NoList, FALSE)}

\* a cycle that runs the update on the store as it finds it
reconcile_cycle_WithoutCommit(fs, cfs, rcs, dir) ==
    {Outcome(run.raised, cfs, rcs, run.dir) : run \in systemd_update(dir, cfs, NoList, FALSE)}

\* determine_config_changes, register_config_changes and update, one after
\* the other with nothing in between
reconcile_cycle(fs, cfs, rcs, dir) ==
    LET cs == determine_config_changes(fs, cfs, rcs)
    IN  IF cs.status # "returned" THEN {Outcome("Exception", cfs, rcs, dir)}
        ELSE commit_and_update(cfs, rcs, dir, cs.configs, cs.meta)

\* the runs of the next cycle that reach their end
completed_cycles(fs, cfs, rcs, dir) ==
    {o \in reconcile_cycle(fs, cfs, rcs, dir) : o.raised = None}

\* what the cycle under way would leave if it ran to its end
Expected ==
    LET done == {o \in commit_and_update(config_files, remove_configs, unit_dir,
                                         changeset.configs, changeset.meta) : o.raised = None}
    IN  [config_files |-> {o.config_files : o \in done},
         remove_configs |-> {o.remove_configs : o \in done},
         dirs |-> {Contents(o.dir) : o \in done}]

Recovering == phase = "terminated"

\* the invocation that determined a changeset is terminated in its commit or
\* in the update that follows
CycleTerminated ==
    /\ changeset.status = "returned"
    /\ phase \in {"determined", "redetermined"}
    /\ Expected.dirs # {}
    /\ \E o \in terminated_commit_and_update(config_files, remove_configs, unit_dir,
                                              changeset.configs, changeset.meta) :
          /\ config_files' = o.config_files
          /\ remove_configs' = o.remove_configs
          /\ unit_dir' = o.dir
          /\ last' = [op |-> "terminated", raised |-> "terminated", warned |-> {},
                       expected |-> Expected,
                       next_cycle |-> completed_cycles(files, o.config_files,
                                                       o.remove_configs, o.dir)]
    /\ changeset' = NoChangeset
    /\ phase' = "terminated"
    /\ UNCHANGED <<files, edits>>

\* the next invocation runs a whole cycle to its end: one of the runs that
\* the state the last invocation left admits
RecoverCompleted ==
    /\ Recovering
    /\ \E o \in last.next_cycle :
          /\ config_files' = o.config_files
          /\ remove_configs' = o.remove_configs
          /\ unit_dir' = o.dir
    /\ last' = [op |-> "recovered", raised |-> None, warned |-> {},
                 expected |-> last.expected]
    /\ phase' = "committed"
    /\ UNCHANGED <<files, changeset, edits>>

\* the next invocation runs a cycle that a failing command ends
RecoverFailed ==
    /\ Recovering
    /\ \E o \in reconcile_cycle(files, config_files, remove_configs, unit_dir) :
          /\ o.raised # None
          /\ config_files' = o.config_files
          /\ remove_configs' = o.remove_configs
          /\ unit_dir' = o.dir
          /\ last' = [op |-> "recovering", raised |-> o.raised, warned |-> {},
                       expected |-> last.expected,
                       next_cycle |-> completed_cycles(files, o.config_files,
                                                       o.remove_configs, o.dir)]
    /\ UNCHANGED <<files, changeset, edits, phase>>

\* galaxyctl register of one config file, for either backend
AddForBackend ==
    /\ ~Recovering
    /\ changeset.status # "returned"
    /\ \E config_file \in ConfigFiles \ DOMAIN config_files, pm \in ProcessManagers :
        LET r == add(files, config_files, remove_configs, <<config_file>>, <<1>>, {})
        IN  /\ r.store.raised = None
            /\ config_files' = Put(r.store.config_files, config_file,
                                    Put(r.store.config_files[config_file], "process_manager", pm))
            /\ remove_configs' = r.store.remove_configs
            /\ last' = Call("add", None, r.warned)
    /\ phase' = "dirty"
    /\ UNCHANGED <<files, changeset, edits, unit_dir>>

\* galaxyctl deregister of one registered config file
RemoveRegistered ==
    /\ ~Recovering
    /\ changeset.status # "returned"
    /\ \E config_file \in DOMAIN config_files :
        LET r == remove(config_files, remove_configs, <<config_file>>)
        IN  /\ config_files' = r.store.config_files
            /\ remove_configs' = r.store.remove_configs
            /\ last' = Call("remove", r.store.raised, r.warned)
    /\ phase' = "dirty"
    /\ UNCHANGED <<files, changeset, edits, unit_dir>>

DetermineOfCycle == ~Recovering /\ Determine
RegisterOfCycle == ~Recovering /\ Register

CrashNext ==
    \/ AddForBackend
    \/ RemoveRegistered
    \/ DetermineOfCycle
    \/ RegisterOfCycle
    \/ CycleTerminated
    \/ RecoverCompleted
    \/ RecoverFailed

\* the next invocation is run again until a cycle runs to its end
SpecCrash == Init /\ [][CrashNext]_vars /\ WF_vars(RecoverCompleted)

\* ---- the lifecycle operations
MaxNames == 2
LifecycleNameArgs == {NoList} \cup {Some(l) : l \in ListsUpTo({DEFAULT_INSTANCE_NAME, "x"}, MaxNames)}

LifecycleCall(op, method, instance_names, run, calls, reported) ==
    [op |-> op, method |-> method, raised |-> run.raised, warned |-> reported,
     instance_names |-> instance_names, trace |-> run.trace, calls |-> calls]

\* ProcessManagerRouter.start, stop, restart, reload, graceful
RouterNamedMethod ==
    /\ \E method \in NamedMethods, instance_names \in LifecycleNameArgs :
        \E r \in route_method(method, TRUE, unit_dir, config_files, instance_names) :
            /\ unit_dir' = r.run.dir
            /\ last' = LifecycleCall("router", method, instance_names, r.run, r.calls, r.reported)
    /\ UNCHANGED <<files, config_files, remove_configs, changeset, edits, phase>>

\* ProcessManagerRouter.status, shutdown
RouterUnnamedMethod ==
    /\ \E method \in UnnamedMethods :
        \E r \in route_method(method, FALSE, unit_dir, config_files, NoList) :
            /\ unit_dir' = r.run.dir
            /\ last' = LifecycleCall("router", method, NoList, r.run, r.calls, r.reported)
    /\ UNCHANGED <<files, config_files, remove_configs, changeset, edits, phase>>

RouteNext == PutConfig \/ Deregister \/ RouterNamedMethod \/ RouterUnnamedMethod

SpecRoute == Init /\ [][RouteNext]_vars

\* SystemdProcessManager.start, stop
SystemdStartStop ==
    /\ \E method \in {"start", "stop"}, instance_names \in InstanceNameArgs :
        \E run \in systemd_method(method, unit_dir, config_files, instance_names) :
            /\ unit_dir' = run.dir
            /\ last' = LifecycleCall("systemd", method, instance_names, run, <<>>, {})
    /\ UNCHANGED <<files, config_files, remove_configs, changeset, edits, phase>>

\* SystemdProcessManager.status
SystemdStatus ==
    /\ \E run \in systemd_method("status", unit_dir, config_files, NoList) :
            /\ unit_dir' = run.dir
            /\ last' = LifecycleCall("systemd", "status", NoList, run, <<>>, {})
    /\ UNCHANGED <<files, config_files, remove_configs, changeset, edits, phase>>

\* SystemdProcessManager.restart, reload, graceful, shutdown
SystemdDebugOnly ==
    /\ \E method \in {"restart", "reload", "graceful", "shutdown"} :
        \E instance_names \in (IF method = "shutdown" THEN {NoList} ELSE InstanceNameArgs) :
        \E run \in systemd_method(method, unit_dir, config_files, instance_names) :
            /\ unit_dir' = run.dir
            /\ last' = LifecycleCall("systemd", method, instance_names, run, <<>>, {})
    /\ UNCHANGED <<files, config_files, remove_configs, changeset, edits, phase>>

LifecycleNext ==
    PutConfig \/ Deregister \/ SystemdUpdate \/ SystemdStartStop \/ SystemdStatus \/ SystemdDebugOnly

SpecLifecycle == Init /\ [][LifecycleNext]_vars


\* ===================================================================
\* Properties of the reconcile cycle (specification Spec)
\* ===================================================================
StagedKeys == {"update_attribs", "update_instance_name", "update_services", "remove_services"}

EmptyChangeset(cs) ==
    /\ \A cf \in DOMAIN cs.configs : DOMAIN cs.configs[cf] \cap StagedKeys = {}
    /\ cs.meta["changed_instances"] = {}
    /\ cs.meta["remove_instances"] = <<>>

\* C1: a determine that follows a determine and its commit, with no change of a
\* config file or of the store in between, returns an empty changeset.
C1_SecondDetermineIsEmpty ==
    phase = "redetermined" => EmptyChangeset(changeset)

\* what is left of C1 in the code: nothing is staged and nothing is removed
SecondDetermineStagesNothing ==
    phase = "redetermined" =>
        /\ \A cf \in DOMAIN changeset.configs : DOMAIN changeset.configs[cf] \cap StagedKeys = {}
        /\ changeset.meta["remove_instances"] = <<>>

\* the name a registered config resolves to, read off the file and the store
ResolvedNameOf(cf) ==
    LET stored == config_files[cf]
        parse == get_config(cf, files[cf], stored["attribs"])
    IN  IF parse.raised = "OSError" THEN stored["instance_name"]
        ELSE IF parse.value["instance_name"] # None THEN parse.value["instance_name"]
        ELSE stored["instance_name"]

KnownInstances ==
    {config_files[cf]["instance_name"] : cf \in DOMAIN config_files}
    \cup {remove_configs[cf]["instance_name"] : cf \in DOMAIN remove_configs}

\* C2: in the result of determine_config_changes, an instance name known to the
\* store is in remove_instances iff no registered config resolves to it.
C2_RemovalInvariant ==
    changeset.status = "returned" =>
        \A I \in KnownInstances :
            (I \in Range(changeset.meta["remove_instances"]))
                <=> ~\E cf \in DOMAIN config_files : ResolvedNameOf(cf) = I

\* C2 witness: a determine that removes an instance while a config stays registered
C2_Witness ==
    /\ changeset.status = "returned"
    /\ changeset.meta["remove_instances"] # <<>>
    /\ DOMAIN config_files # {}

\* C4: a registered config that fails to re-parse, unreadable or invalid, does not
\* keep determine_config_changes from returning; every other config gets its diff.
C4_BrokenConfigIsSkipped ==
    last.op = "determine" =>
        /\ changeset.status = "returned"
        /\ \A cf \in DOMAIN config_files :
              LET parse == get_config(cf, files[cf], config_files[cf]["attribs"])
              IN  (parse.raised = None /\ ~parse.none) =>
                      changeset.configs[cf] = StageChanges(config_files[cf], parse.value)

\* C5: for a config whose file cannot be read, determine returns the stored record
\* with nothing staged and does not remove its instance; the commit leaves the
\* config registered with the record it had.
C5_UnreadableKeepsRegistration ==
    /\ changeset.status = "returned" =>
          \A cf \in changeset.warned :
              /\ changeset.configs[cf] = config_files[cf]
              /\ DOMAIN changeset.configs[cf] \cap StagedKeys = {}
              /\ config_files[cf]["instance_name"] \notin Range(changeset.meta["remove_instances"])
    /\ (last.op = "register" /\ last.raised = None) =>
          \A cf \in last.warned :
              /\ cf \in DOMAIN config_files
              /\ config_files[cf] = last.before[cf]

\* C5 witness: a commit of a cycle in which a config with services was unreadable
C5_Witness ==
    /\ last.op = "register"
    /\ last.raised = None
    /\ \E cf \in last.warned : cf \in DOMAIN config_files /\ config_files[cf]["services"] # <<>>

\* ===================================================================
\* Properties of the service diff and its commit (specification SpecDiff)
\* ===================================================================
SameService(a, b) ==
    /\ a["config_type"] = b["config_type"]
    /\ a["service_type"] = b["service_type"]
    /\ a["service_name"] = b["service_name"]

StagedUpdate(config) == Get(config, "update_services", <<>>)
StagedRemove(config) == Get(config, "remove_services", <<>>)

\* C6: update_services is exactly the fresh specs without a full structural match
\* among the stored ones, remove_services exactly the stored specs without a
\* corresponding fresh spec, and the instance is changed when either is non-empty.
C6_ServiceDiff ==
    changeset.status = "returned" =>
        \A cf \in DOMAIN config_files \ changeset.warned :
            LET S == config_files[cf]["services"]
                F == get_config(cf, files[cf], config_files[cf]["attribs"]).value["services"]
                upd == StagedUpdate(changeset.configs[cf])
                rem == StagedRemove(changeset.configs[cf])
            IN  /\ upd = SelectSeq(F, LAMBDA f : f \notin Range(S))
                /\ rem = SelectSeq(S, LAMBDA st : ~\E f \in Range(F) : SameService(f, st))
                /\ ("update_services" \in DOMAIN changeset.configs[cf]) <=> (upd # <<>>)
                /\ ("remove_services" \in DOMAIN changeset.configs[cf]) <=> (rem # <<>>)
                /\ (upd # <<>> \/ rem # <<>>) =>
                       ResolvedNameOf(cf) \in changeset.meta["changed_instances"]

\* C6 witness: a diff that stages a changed spec, and a spec to remove
C6_Witness ==
    /\ changeset.status = "returned"
    /\ \E cf \in DOMAIN config_files \ changeset.warned :
          /\ StagedRemove(changeset.configs[cf]) # <<>>
          /\ \E u \in Range(StagedUpdate(changeset.configs[cf])) :
                \E st \in Range(config_files[cf]["services"]) : SameService(u, st)

Committed == last.op = "register" /\ last.raised = None

C8_RemovedStaysRemoved ==
    Committed =>
        \A cf \in DOMAIN last.configs :
            \A r \in Range(StagedRemove(last.configs[cf])) :
                ~\E n \in Range(config_files[cf]["services"]) : SameService(n, r)

\* C8 witness: a commit that removed a spec and kept an unchanged one
C8_Witness ==
    /\ Committed
    /\ \E cf \in DOMAIN last.configs :
          /\ StagedRemove(last.configs[cf]) # <<>>
          /\ \E st \in Range(last.before[cf]["services"]) :
                /\ st \in Range(config_files[cf]["services"])
                /\ st \notin Range(StagedUpdate(last.configs[cf]))

\* ===================================================================
\* Properties of the backends (specification SpecPM)
\* ===================================================================
Owned == {cf \in DOMAIN config_files : config_files[cf]["process_manager"] = systemd}
OwnedInstances == {config_files[cf]["instance_name"] : cf \in Owned}
UnitOf(service) == <<service["config_type"], service["service_name"]>>
IntendedUnits ==
    UNION {{UnitOf(config_files[cf]["services"][i]) : i \in 1..Len(config_files[cf]["services"])} :
           cf \in Owned}

SystemdUpdateCompleted == last.op = "systemd.update" /\ last.raised = None

\* C3: after a completed update of the systemd backend, the unit directory holds
\* the unit of every service of every config the backend owns, and no other
\* managed unit file.
C3_UnitDirIsExact ==
    SystemdUpdateCompleted =>
        /\ \A cf \in Owned :
              \A i \in 1..Len(config_files[cf]["services"]) :
                  LET service == config_files[cf]["services"][i]
                  IN  /\ UnitOf(service) \in DOMAIN unit_dir
                      /\ unit_dir[UnitOf(service)].contents.galaxy_conf = cf
                      /\ unit_dir[UnitOf(service)].contents.program_name = service["service_name"]
        /\ DOMAIN unit_dir \subseteq IntendedUnits

\* C9: after a completed update, no unit file is left that the backend wrote
\* for an instance it does not own any more.
C9_LeftoversAreRemoved ==
    SystemdUpdateCompleted =>
        \A u \in DOMAIN unit_dir :
            unit_dir[u].written_for \in OwnedInstances \/ u \in IntendedUnits

CallsTo(pm) == {i \in 1..Len(last.calls) : last.calls[i].pm = pm}

\* C10 as stated: every router update calls update(instance_names, force)
\* exactly once on every loaded backend.
C10_EveryBackendCalledOnce ==
    last.op = "router.update" =>
        \A pm \in ProcessManagers :
            /\ Cardinality(CallsTo(pm)) = 1
            /\ \A i \in CallsTo(pm) :
                  /\ last.calls[i].instance_names = last.instance_names
                  /\ last.calls[i].force = last.force

\* C10: the router's update calls update(instance_names, force) at most once on
\* a backend, with its own arguments, whatever the names and whoever owns
\* them; it calls every loaded backend exactly once unless a backend's update
\* raises, which ends the loop with the later backends not called.
C10_UpdateReachesEveryBackend ==
    last.op = "router.update" =>
        /\ \A pm \in ProcessManagers : Cardinality(CallsTo(pm)) <= 1
        /\ \A i \in 1..Len(last.calls) :
              /\ last.calls[i].instance_names = last.instance_names
              /\ last.calls[i].force = last.force
        /\ last.raised = None => \A pm \in ProcessManagers : Cardinality(CallsTo(pm)) = 1

\* C10 witness: a completed router update for an instance that only the
\* supervisor backend owns
C10_Witness ==
    /\ last.op = "router.update"
    /\ last.raised = None
    /\ last.instance_names = Some(<<"x">>)
    /\ \E cf \in DOMAIN config_files : config_files[cf]["instance_name"] = "x"
    /\ \A cf \in DOMAIN config_files :
          config_files[cf]["instance_name"] = "x" => config_files[cf]["process_manager"] = supervisor
    /\ Cardinality(CallsTo(systemd)) = 1

\* ===================================================================
\* Properties of the router's dispatch (specification SpecRoute)
\* ===================================================================
RegisteredNames == {config_files[cf]["instance_name"] : cf \in DOMAIN config_files}

\* the names a call asks for: those of its list, or every registered name when
\* the list is absent or empty
RequestedNames ==
    IF last.instance_names = NoList THEN RegisteredNames
    ELSE IF last.instance_names[1] = <<>> THEN RegisteredNames
    ELSE Range(last.instance_names[1])

UnknownNames == RequestedNames \ RegisteredNames
TargetNames == RequestedNames \cap RegisteredNames

\* the backend an instance is assigned to
AssignedBackend(n) == process_manager(get_instance_config(config_files, n))

\* the calls of the last router operation that were handed the name n
CallsWith(n) ==
    {i \in 1..Len(last.calls) : n \in Range(last.calls[i].instance_names[1])}

NamedDispatch == last.op = "router" /\ last.method \in NamedMethods

\* C11 as stated: every requested registered name is passed to exactly one
\* backend, the one it is assigned to; a backend gets only its own names and is
\* not invoked without a name.
C11_EveryNameReachesItsBackend ==
    NamedDispatch =>
        /\ \A n \in TargetNames :
              /\ Cardinality(CallsWith(n)) = 1
              /\ \A i \in CallsWith(n) : last.calls[i].pm = AssignedBackend(n)
        /\ \A i \in 1..Len(last.calls) :
              /\ last.calls[i].instance_names[1] # <<>>
              /\ \A n \in Range(last.calls[i].instance_names[1]) :
                    n \in TargetNames /\ AssignedBackend(n) = last.calls[i].pm

\* C11 as amended: a requested registered name is passed to at most one
\* backend, the one it is assigned to; a backend is invoked at most once, with
\* only its own names and never without a name; every requested registered
\* name has been passed on when the operation returns, while a backend that
\* raises ends the dispatch with the names of the later groups not passed on.
C11_NamesAreGroupedByBackend ==
    NamedDispatch =>
        /\ \A n \in TargetNames :
              /\ Cardinality(CallsWith(n)) <= 1
              /\ \A i \in CallsWith(n) : last.calls[i].pm = AssignedBackend(n)
              /\ last.raised = None => Cardinality(CallsWith(n)) = 1
        /\ \A i, j \in 1..Len(last.calls) : i # j => last.calls[i].pm # last.calls[j].pm
        /\ \A i \in 1..Len(last.calls) :
              /\ last.calls[i].method = last.method
              /\ last.calls[i].instance_names[1] # <<>>
              /\ \A n \in Range(last.calls[i].instance_names[1]) :
                    n \in TargetNames /\ AssignedBackend(n) = last.calls[i].pm

\* C11 witness: a dispatch that returned after invoking both backends, each
\* with its own name
C11_Witness ==
    /\ NamedDispatch
    /\ last.raised = None
    /\ Len(last.calls) = 2
    /\ \A n \in TargetNames : Cardinality(CallsWith(n)) = 1

\* C12: a lifecycle operation called with names of which some are not
\* registered reports every unknown name, and still runs for the registered ones.
C12_UnknownNamesAreReported ==
    NamedDispatch =>
        /\ UnknownNames \subseteq last.warned
        /\ last.raised = None => \A n \in TargetNames : CallsWith(n) # {}

\* C13: with no config registered, every lifecycle operation of the router
\* ends with the fatal usage error, without a backend call or a control command.
C13_NothingRegisteredIsFatal ==
    (last.op = "router" /\ DOMAIN config_files = {}) =>
        /\ last.raised = exception
        /\ last.calls = <<>>
        /\ last.trace = <<>>

\* ===================================================================
\* Properties of the systemd backend's operations (specification SpecLifecycle)
\* ===================================================================
\* the configs an operation of the backend targets: those of the named
\* instances, or every registered config when no name is given
TargetConfigs ==
    IF last.instance_names = NoList THEN DOMAIN config_files
    ELSE {cf \in DOMAIN config_files :
             config_files[cf]["instance_name"] \in Range(last.instance_names[1])}

TargetUnits ==
    UNION {{UnitOf(config_files[cf]["services"][i]) : i \in 1..Len(config_files[cf]["services"])} :
           cf \in TargetConfigs}

SystemdReturned(methods) ==
    last.op = "systemd" /\ last.method \in methods /\ last.raised = None

\* C14: a start, stop or status of the systemd backend that targets a config
\* issues exactly one control command, whose arguments are the unit names of
\* every service of every targeted instance.
C14_OneCommandPerOperation ==
    (SystemdReturned({"start", "stop", "status"}) /\ TargetConfigs # {}) =>
        /\ Len(last.trace) = 1
        /\ last.trace[1].ev = last.method
        /\ Range(last.trace[1].units) = TargetUnits

\* C15: a restart, reload, graceful or shutdown of the systemd backend that
\* targets a config with services issues a control command covering the unit
\* names of every service of every targeted instance.
C15_SameShapeAsStartStop ==
    (SystemdReturned({"restart", "reload", "graceful", "shutdown"}) /\ TargetUnits # {}) =>
        \E i \in 1..Len(last.trace) :
            /\ last.trace[i].ev = last.method
            /\ Range(last.trace[i].units) = TargetUnits

SystemdOperation == last.op \in {"systemd", "systemd.update"}

\* C16: a control command that exits non-zero ends the operation with
\* CalledProcessError: it is the last thing the operation did, so it is not
\* issued again and no control call or unit-file change follows it; and an
\* operation ends that way only after such a command.
C16_ControlFailureIsFatal ==
    SystemdOperation =>
        /\ \A i \in 1..Len(last.trace) :
              ("exit" \in DOMAIN last.trace[i] /\ last.trace[i].exit # 0) =>
                  i = Len(last.trace) /\ last.raised = "CalledProcessError"
        /\ last.raised = "CalledProcessError" =>
              /\ last.trace # <<>>
              /\ "exit" \in DOMAIN last.trace[Len(last.trace)]
              /\ last.trace[Len(last.trace)].exit # 0

\* C16 witness: an update that had written a unit file and was removing
\* another when the stop command failed
C16_Witness ==
    /\ last.op = "systemd.update"
    /\ last.raised = "CalledProcessError"
    /\ Len(last.trace) >= 2
    /\ last.trace[Len(last.trace)].ev = "stop"
    /\ \E i \in 1..Len(last.trace) : last.trace[i].ev = "write"

\* ===================================================================
\* Properties of a rename and of a deregistration (specification Spec)
\* ===================================================================
\* the explicit instance name the file of a registered config gives, if it parses
ParsedName(cf) ==
    LET parse == get_config(cf, files[cf], config_files[cf]["attribs"])
    IN  IF parse.raised = None /\ ~parse.none THEN parse.value["instance_name"] ELSE None

\* the registered configs whose explicit instance name differs from the stored one
RenamedConfigs ==
    {cf \in DOMAIN config_files :
        ParsedName(cf) # None /\ ParsedName(cf) # config_files[cf]["instance_name"]}

\* the determine that observes a rename stages the new name
RenameIsStaged ==
    changeset.status = "returned" =>
        \A cf \in RenamedConfigs :
            /\ "update_instance_name" \in DOMAIN changeset.configs[cf]
            /\ changeset.configs[cf]["update_instance_name"] = ParsedName(cf)

\* the commit stores the staged name
RenameIsCommitted ==
    Committed =>
        \A cf \in DOMAIN last.configs :
            "update_instance_name" \in DOMAIN last.configs[cf] =>
                config_files[cf]["instance_name"] = last.configs[cf]["update_instance_name"]

\* the old names of the configs the last commit renamed that no registered
\* config has any more
AbandonedNames ==
    IF ~Committed THEN {}
    ELSE {last.before[cf]["instance_name"] :
            cf \in {c \in DOMAIN last.configs : "update_instance_name" \in DOMAIN last.configs[c]}}
         \ {config_files[cf]["instance_name"] : cf \in DOMAIN config_files}

\* a determine that returns, taken right after a commit
DetermineAfterCommit ==
    /\ Committed
    /\ last'.op = "determine"
    /\ changeset'.status = "returned"

\* C17 as stated: the determine that observes the change of name stages the new
\* name, the commit stores it, and the determine that follows the commit
\* reports the old name in remove_instances.
C17_OldNameRemovedNextCycle ==
    /\ [](RenameIsStaged /\ RenameIsCommitted)
    /\ [][DetermineAfterCommit =>
             \A n \in AbandonedNames : n \in Range(changeset'.meta["remove_instances"])]_vars

\* C17 as amended: the determine that observes the change of name stages the new
\* name and reports the old name in remove_instances in the same result, when no
\* other registered config resolves to it; the commit stores the new name; the
\* determine that follows the commit does not report the old name, which the
\* store no longer holds.
C17_OldNameRemovedSameCycle ==
    /\ [](/\ RenameIsStaged
          /\ RenameIsCommitted
          /\ changeset.status = "returned" =>
                \A cf \in RenamedConfigs :
                    (~\E other \in DOMAIN config_files :
                         ResolvedNameOf(other) = config_files[cf]["instance_name"])
                    => config_files[cf]["instance_name"]
                           \in Range(changeset.meta["remove_instances"]))
    /\ [][DetermineAfterCommit =>
             \A n \in AbandonedNames : n \notin Range(changeset'.meta["remove_instances"])]_vars

\* C17 witness: a commit that stored the name y for a config registered as x,
\* with no registered config left that has the name x
C17_Witness ==
    /\ Committed
    /\ "x" \in AbandonedNames
    /\ \E cf \in DOMAIN last.configs :
          /\ "update_instance_name" \in DOMAIN last.configs[cf]
          /\ last.before[cf]["instance_name"] = "x"
          /\ config_files[cf]["instance_name"] = "y"

\* C18: a deregistration moves the record, with its stored value, from
\* config_files to remove_configs; a record leaves remove_configs only in a
\* register_config_changes; and a register_config_changes that returns leaves
\* remove_configs empty, the purged paths being in neither table unless they
\* were registered again.
C18_DeregisterThenPurge ==
    [][/\ (last'.op = "remove" /\ last'.raised = None) =>
             /\ DOMAIN config_files' \subseteq DOMAIN config_files
             /\ \A cf \in DOMAIN config_files' : config_files'[cf] = config_files[cf]
             /\ DOMAIN remove_configs' =
                    DOMAIN remove_configs \cup (DOMAIN config_files \ DOMAIN config_files')
             /\ \A cf \in DOMAIN config_files \ DOMAIN config_files' :
                    remove_configs'[cf] = config_files[cf]
             /\ \A cf \in DOMAIN remove_configs \ (DOMAIN config_files \ DOMAIN config_files') :
                    remove_configs'[cf] = remove_configs[cf]
       /\ (\E cf \in DOMAIN remove_configs : cf \notin DOMAIN remove_configs') =>
             last'.op = "register"
       /\ (last'.op = "register" /\ last'.raised = None /\ changeset.status = "returned") =>
             /\ remove_configs' = EmptyDict
             /\ \A cf \in DOMAIN remove_configs \ DOMAIN config_files :
                    cf \notin DOMAIN config_files'
      ]_vars

\* C18 witness: a commit that purged the record of a deregistered config,
\* whose path is now in neither table
C18_Witness ==
    /\ Committed
    /\ \E cf \in DOMAIN last.pending :
          /\ last.pending[cf]["instance_name"] = "x"
          /\ cf \notin DOMAIN config_files
          /\ cf \notin DOMAIN remove_configs

StoreOps == {"_register_config_file", "_deregister_config_file", "_purge_config_file"}

\* a store operation called right after the same operation with the same
\* arguments returned
SameCallAgain ==
    /\ last.op \in StoreOps
    /\ last.raised = None
    /\ last'.op = last.op
    /\ last'.key = last.key
    /\ last.op = "_register_config_file" => last'.val = last.val

\* C19: a store operation called twice in a row with the same arguments raises
\* nothing the second time and leaves the store as the first call left it.
C19_StoreOperationsRepeatable ==
    [][SameCallAgain =>
          /\ last'.raised = None
          /\ config_files' = config_files
          /\ remove_configs' = remove_configs]_vars

\* ===================================================================
\* Properties of remove() with a list of targets (specification SpecRemove)
\* ===================================================================
\* the config files a target of remove() names in the store it was called on:
\* the path itself, or the configs registered under that instance name
TargetedConfigs(target) ==
    {cf \in DOMAIN last.before :
        cf = target \/ last.before[cf]["instance_name"] = target}

\* C21: remove() called with a list of targets raises nothing, deregisters
\* every config a target names by path or by instance name, and warns about
\* every target that names no registered config.
C21_EveryTargetHandled ==
    last.op = "remove_targets" =>
        /\ last.raised = None
        /\ \A i \in 1..Len(last.targets) :
              LET target == last.targets[i]
              IN  IF TargetedConfigs(target) = {}
                  THEN target \in last.warned
                  ELSE \A cf \in TargetedConfigs(target) : cf \notin DOMAIN config_files

\* ===================================================================
\* Properties of the writes of an update (specification SpecPM)
\* ===================================================================
\* the contents of the unit files after the first n events of a trace that
\* started on the directory dir
RECURSIVE ContentsAfter(_, _, _)
ContentsAfter(dir, trace, n) ==
    IF n = 0 THEN [path \in DOMAIN dir |-> dir[path].contents]
    ELSE LET before == ContentsAfter(dir, trace, n - 1)
             event == trace[n]
         IN  IF event.ev = "write" THEN Put(before, event.unit, event.contents)
             ELSE IF event.ev = "unlink" THEN Pop(before, event.unit)
             ELSE before

\* C22: in an update, every write of a unit file finds the file missing or
\* holding other contents than the rendered ones; the writes and removals of
\* the update account for every difference of the unit directory, so a file
\* whose contents equal the rendered ones is left as it is; and the only
\* commands issued are stop, for a file that is removed, and daemon-reload.
C22_WriteOnlyWhenDifferent ==
    [][last'.op = "systemd.update" =>
          /\ \A n \in 1..Len(last'.trace) :
                LET event == last'.trace[n]
                    before == ContentsAfter(unit_dir, last'.trace, n - 1)
                IN  /\ event.ev \in {"write", "unlink", "stop", "daemon-reload"}
                    /\ event.ev = "write" =>
                          \/ event.unit \notin DOMAIN before
                          \/ before[event.unit] # event.contents
                    /\ event.ev = "stop" =>
                          (event.exit = 0 =>
                              /\ n < Len(last'.trace)
                              /\ last'.trace[n + 1].ev = "unlink"
                              /\ last'.trace[n + 1].unit = event.unit)
          /\ ContentsAfter(unit_dir, last'.trace, Len(last'.trace))
                = [path \in DOMAIN unit_dir' |-> unit_dir'[path].contents]
      ]_vars

\* C22 witness: a completed update that wrote a unit file and left another
\* intended unit file, already there with the rendered contents, unwritten
C22_Witness ==
    /\ SystemdUpdateCompleted
    /\ \E n \in 1..Len(last.trace) : last.trace[n].ev = "write"
    /\ \E u \in IntendedUnits \cap DOMAIN unit_dir :
          \A n \in 1..Len(last.trace) :
              last.trace[n].ev = "write" => last.trace[n].unit # u

\* an update of the systemd backend that returns, called with the arguments
\* of the completed update it follows at once
UpdateRepeated ==
    /\ SystemdUpdateCompleted
    /\ last'.op = "systemd.update"
    /\ last'.raised = None
    /\ last'.instance_names = last.instance_names

\* C23: an update that follows a completed update at once writes no unit
\* file, removes none and issues no stop command.
C23_SecondUpdateChangesNothing ==
    [][UpdateRepeated =>
          \A n \in 1..Len(last'.trace) :
              last'.trace[n].ev \notin {"write", "unlink", "stop"}]_vars

\* C24: in a completed update no unit file is written after a stop or a
\* removal, every removal of a unit file comes right after a stop command for
\* that unit, and daemon-reload is issued once, as the last command.
C24_WriteThenRemoveThenReload ==
    SystemdUpdateCompleted =>
        LET trace == last.trace
            events == 1..Len(trace)
        IN  /\ \A m, n \in events :
                  (trace[m].ev \in {"stop", "unlink"} /\ trace[n].ev = "write") => n < m
            /\ \A n \in events :
                  trace[n].ev = "unlink" =>
                      /\ n > 1
                      /\ trace[n - 1].ev = "stop"
                      /\ trace[n - 1].unit = trace[n].unit
            /\ Cardinality({n \in events : trace[n].ev = "daemon-reload"}) = 1
            /\ trace # <<>>
            /\ trace[Len(trace)].ev = "daemon-reload"

\* ===================================================================
\* Properties of the rendering of the service types (specification SpecParsed)
\* ===================================================================
\* C25: an update of the systemd backend is not ended by a service type, and
\* a completed update of every instance leaves a unit file for every service
\* of every config the backend owns.
C25_EveryServiceTypeRenders ==
    last.op = "systemd.update" =>
        /\ last.raised # "Exception"
        /\ (last.raised = None /\ last.instance_names = NoList) =>
              \A cf \in Owned :
                  \A i \in 1..Len(config_files[cf]["services"]) :
                      UnitOf(config_files[cf]["services"][i]) \in DOMAIN unit_dir

\* ===================================================================
\* Properties of the environment of a unit (specification SpecEnv)
\* ===================================================================
\* the rendered environment has the variables of both maps, and a variable
\* only one map defines has the value that map gives it
EnvironmentIsMerged ==
    /\ DOMAIN last.rendered = DOMAIN last.service_env \cup DOMAIN last.attribs_env
    /\ \A k \in DOMAIN last.service_env \ DOMAIN last.attribs_env :
          last.rendered[k] = format_value(last.service_env[k], [state_dir |-> "/state"])
    /\ \A k \in DOMAIN last.attribs_env \ DOMAIN last.service_env :
          last.rendered[k] = format_value(last.attribs_env[k], [state_dir |-> "/state"])

\* C26 as stated: the rendered environment is the merge of the service-level
\* map and the attribute-level map, and a variable both maps define has the
\* service-level value.
C26_ServiceLevelWins ==
    last.op = "_service_environment" =>
        /\ EnvironmentIsMerged
        /\ \A k \in DOMAIN last.service_env \cap DOMAIN last.attribs_env :
              last.rendered[k] = format_value(last.service_env[k], [state_dir |-> "/state"])

\* C26 as amended: the rendered environment is the merge of the service-level
\* map and the attribute-level map, and a variable both maps define has the
\* attribute-level value.
C26_AttributeLevelWins ==
    last.op = "_service_environment" =>
        /\ EnvironmentIsMerged
        /\ \A k \in DOMAIN last.service_env \cap DOMAIN last.attribs_env :
              last.rendered[k] = format_value(last.attribs_env[k], [state_dir |-> "/state"])

\* C26 witness: a variable both maps define, with different values, rendered
\* with the attribute-level one
C26_Witness ==
    /\ last.op = "_service_environment"
    /\ \E k \in DOMAIN last.service_env \cap DOMAIN last.attribs_env :
          /\ last.service_env[k] # last.attribs_env[k]
          /\ last.rendered[k] = format_value(last.attribs_env[k], [state_dir |-> "/state"])

\* ===================================================================
\* Properties of invocations that interleave (specification SpecRace)
\* ===================================================================
\* the commit of a changeset that was determined with nothing run since
SerializedCommit ==
    /\ last'.op = "register"
    /\ phase \in {"determined", "redetermined"}

\* the configs of the changeset that were deregistered since it was determined
DeregisteredSince == DOMAIN changeset.configs \ DOMAIN config_files

\* C27 as stated: a commit that is serialized with the other invocations adds
\* no path to config_files; a commit that returns after another invocation
\* deregistered a config of its changeset writes that path back into
\* config_files and leaves it in remove_configs as well.
C27_LostDeregistrationInBoth ==
    [][/\ SerializedCommit => DOMAIN config_files' \subseteq DOMAIN config_files
       /\ (last'.op = "register" /\ last'.raised = None) =>
             \A cf \in DeregisteredSince :
                 /\ cf \in DOMAIN remove_configs
                 /\ cf \in DOMAIN config_files'
                 /\ cf \in DOMAIN remove_configs'
      ]_vars

\* C27 as amended: a commit that is serialized with the other invocations adds
\* no path to config_files; a commit that returns after another invocation
\* deregistered a config of its changeset writes that path back into
\* config_files; the path stays in remove_configs as well, unless it was
\* pending removal already when the changeset was determined, in which case
\* the commit purges the pending record and the path is in config_files only.
C27_LostDeregistration ==
    [][/\ SerializedCommit => DOMAIN config_files' \subseteq DOMAIN config_files
       /\ (last'.op = "register" /\ last'.raised = None) =>
             \A cf \in DeregisteredSince :
                 /\ cf \in DOMAIN remove_configs
                 /\ cf \in DOMAIN config_files'
                 /\ cf \in DOMAIN remove_configs'
                       <=> cf \notin DOMAIN changeset.meta["remove_configs"]
      ]_vars

\* C27 witness: a commit that returned and left a path both registered and
\* pending removal that was not registered when the commit began
C27_Witness ==
    /\ last.op = "register"
    /\ last.raised = None
    /\ \E cf \in DOMAIN last.configs \ DOMAIN last.before :
          cf \in DOMAIN config_files \cap DOMAIN remove_configs

\* ===================================================================
\* Properties of the unit names (specifications SpecPM and SpecLifecycle)
\* ===================================================================
\* the services of the registered configs, each with its config and instance
RegisteredServices ==
    UNION {{[config_file |-> cf,
             instance_name |-> config_files[cf]["instance_name"],
             service |-> config_files[cf]["services"][i]] :
               i \in 1..Len(config_files[cf]["services"])} :
           cf \in DOMAIN config_files}

\* C29: two services of the registered configs that belong to different
\* configs or instances, or that differ in service name, derive different
\* unit names.
C29_UnitNamesAreDistinct ==
    \A a, b \in RegisteredServices :
        (\/ a.config_file # b.config_file
         \/ a.instance_name # b.instance_name
         \/ a.service["service_name"] # b.service["service_name"])
        => unit_name(a.instance_name, a.service) # unit_name(b.instance_name, b.service)

\* the units of the targeted configs that the systemd backend owns
OwnedTargetUnits ==
    UNION {Range(unit_names_of(config_files[cf])) : cf \in TargetConfigs \cap Owned}

\* C30: every unit a start, stop or status of the systemd backend names in a
\* control command is a unit of a targeted config whose process_manager is
\* systemd.
C30_OnlyOwnedUnitsAddressed ==
    (last.op = "systemd" /\ last.method \in {"start", "stop", "status"}) =>
        \A n \in 1..Len(last.trace) :
            Range(last.trace[n].units) \subseteq OwnedTargetUnits

\* ===================================================================
\* Properties of a terminated cycle (specification SpecCrash)
\* ===================================================================
\* the store and the unit directory are what the terminated cycle would have
\* left had it run to its end
AsUninterrupted ==
    /\ config_files \in last.expected.config_files
    /\ remove_configs \in last.expected.remove_configs
    /\ Contents(unit_dir) \in last.expected.dirs

\* C28: after a cycle is terminated in register_config_changes or in update,
\* every following cycle that runs to its end leaves the store and the unit
\* directory as the terminated cycle would have left them, and such a cycle
\* comes about.
C28_TerminatedCycleConverges ==
    /\ [](last.op = "recovered" => AsUninterrupted)
    /\ (last.op = "terminated") ~> (last.op = "recovered" /\ AsUninterrupted)

\* C28 witness: the cycle after a termination has run to its end, with services
\* committed to the store and units in the unit directory
C28_Witness ==
    /\ last.op = "recovered"
    /\ AsUninterrupted
    /\ unit_dir # EmptyDict
    /\ \E cf \in DOMAIN config_files : Len(config_files[cf]["services"]) > 2

====
